---- MODULE Spec2Model ----
(***************************************************************************)
(* Sequential speech playback engine of the audiobook reader:             *)
(* SpeechService (engine), TTSNative (on-device adapter), the cloud       *)
(* HTMLAudioElement, the silent keep-alive audio and the OS media         *)
(* session, together with the platform events that call back into them.   *)
(***************************************************************************)
EXTENDS Integers, Sequences, FiniteSets, TLC

\* ---------------------------------------------------------------- bounds
MaxTotal == 2        \* totalLines of every book of the model
MaxStale == 1        \* cancelled utterances the platform may still hold

\* ------------------------------------------------------- program constants
RESUME_DELAY == 1000       \* ms, setTimeout delay of resume
HEARTBEAT_MS == 10000      \* ms, setInterval period of the TTSNative heartbeat
DEFAULT_RATE == 1          \* the 1.0 of `configs.rate || 1.0`

\* ------------------------------------------------------------ input space
SysVoice   == [type |-> "system", id |-> "voice1"]
CloudVoice == [type |-> "cloud",  id |-> "google-1"]
NoVoice    == [type |-> "null",   id |-> "null"]      \* selectedVoice missing

\* the text of line k of a book (k counted from 0, as in the code) is a word
\* of its own: <<k>> for book "A", beyond every line of "A" for another book
TextOf(b, k) == <<IF b = "A" THEN k ELSE MaxTotal + 1 + k>>

LinesOf(b, n) == [k \in 1..n |-> TextOf(b, k - 1)]

\* configs.rate is optional: NoRate stands for a config without one
NoRate == 0
RateOf(b) == IF b = "A" THEN 2 ELSE NoRate

MkCfg(b, total, n, v) ==
  [bookId |-> b, totalLines |-> total, lines |-> LinesOf(b, n), selectedVoice |-> v,
   rate |-> RateOf(b)]

\* book A fully loaded under either voice and read at twice the speed, book B
\* with its last line not loaded and no rate given
ValidConfigs ==
  { MkCfg("A", MaxTotal, MaxTotal, SysVoice),
    MkCfg("A", MaxTotal, MaxTotal, CloudVoice),
    MkCfg("B", MaxTotal, MaxTotal - 1, SysVoice) }

InvalidConfigs ==
  { MkCfg("",  MaxTotal, MaxTotal, SysVoice),     \* bookId missing
    MkCfg("A", 0,        0,        SysVoice),     \* totalLines missing
    MkCfg("A", MaxTotal, MaxTotal, NoVoice) }     \* selectedVoice missing

Configs == ValidConfigs \cup InvalidConfigs

Indices == -1 .. MaxTotal

\* the (index, configs) pairs callers pass to start and resume
Inputs == { [index |-> i, cfg |-> c] : i \in Indices, c \in ValidConfigs }
          \cup { [index |-> 0, cfg |-> c] : c \in InvalidConfigs }

MediaActions == {"play", "pause", "nexttrack", "previoustrack"}

\* ------------------------------------------------------------------ state
VARIABLES
  isRestarting,    \* SpeechService.isRestarting
  timer,           \* SpeechService.timer: last setTimeout handle, 0 = null
  timers,          \* live (scheduled, not fired, not cleared) resume timeouts
  currentBookId,   \* SpeechService.currentBookId, "null" = null
  silentPlaying,   \* silentAudio is playing
  cloud,           \* cloudAudio: src, playing, onended
  queue,           \* speechSynthesis utterance queue
  stale,           \* cancelled utterances whose handlers the platform may still call
  ttsStatus,       \* TTSNative.status
  heartbeat,       \* TTSNative.heartbeatInterval is set
  playbackState,   \* navigator.mediaSession.playbackState
  handlers,        \* navigator.mediaSession action handlers
  positionState,   \* last navigator.mediaSession.setPositionState argument
  last,            \* history: what the last step that changed the state of the
                   \* engine, of its adapters or of the media session was: an
                   \* operation (by the caller or the OS), "timerFire",
                   \* "utterStart", a completion ("ended", "bookEnded") or "error"
  run,             \* history: the start() under observation and what the engine
                   \* has emitted since, when a playthrough is being followed
  quiet,           \* history: "loadMore" from a play that found its line not
                   \* loaded until start() or resume() runs again
  hook             \* the React hook or component under observation
                   \* (useDebounceCallback, useUpdateBook or BookReader) with its
                   \* state, refs, timers and clock, when one is

vars == <<isRestarting, timer, timers, currentBookId, silentPlaying, cloud, queue,
          stale, ttsStatus, heartbeat, playbackState, handlers, positionState,
          last, run, quiet, hook>>

\* the engine, its adapters and the media session, with their history
engineVars == <<isRestarting, timer, timers, currentBookId, silentPlaying, cloud, queue,
          stale, ttsStatus, heartbeat, playbackState, handlers, positionState,
          last, run, quiet>>

\* the mutable program state as one record, threaded through the methods;
\* log collects, in order, the caller events a step emits and the adapter and
\* OS calls it makes; late is the platform's choice at speechSynthesis.cancel()
Cur(late) ==
  [isRestarting |-> isRestarting, timer |-> timer, timers |-> timers,
   currentBookId |-> currentBookId, silentPlaying |-> silentPlaying,
   cloud |-> cloud, queue |-> queue, stale |-> stale, ttsStatus |-> ttsStatus,
   heartbeat |-> heartbeat, playbackState |-> playbackState, handlers |-> handlers,
   positionState |-> positionState, log |-> <<>>, late |-> late]

\* the program state of a record, without the step's log and platform choice
Core(s) == <<s.isRestarting, s.timer, s.timers, s.currentBookId, s.silentPlaying, s.cloud,
             s.queue, s.stale, s.ttsStatus, s.heartbeat, s.playbackState, s.handlers,
             s.positionState>>

\* what a step reported to the caller, onIsPlayingChange(true) aside
Reported(s) ==
  LET told == SelectSeq(s.log, LAMBDA e : e.k = "emit" /\ ~(e.name = "isPlaying" /\ e.v = 1))
  IN  [p \in 1..Len(told) |-> <<told[p].name, told[p].v>>]

\* the onIsPlayingChange value the caller holds after a step: the last one the
\* step delivered, else the one held before
ToldAfter(s, told) ==
  LET at == { p \in 1..Len(s.log) : s.log[p].k = "emit" /\ s.log[p].name = "isPlaying" }
  IN  IF at = {} THEN told
      ELSE LET p == CHOOSE q \in at : \A o \in at : o <= q
           IN  IF s.log[p].v = 1 THEN "true" ELSE "false"

NoHook == [mounted |-> FALSE]

NoRun == [on |-> FALSE, index |-> 0, cfg |-> MkCfg("", 0, 0, NoVoice), ev |-> <<>>,
          audit |-> FALSE, told |-> "none"]

\* the engine's part of a step
CommitEngine(s, o, q) ==
  /\ isRestarting' = s.isRestarting
  /\ timer' = s.timer
  /\ timers' = s.timers
  /\ currentBookId' = s.currentBookId
  /\ silentPlaying' = s.silentPlaying
  /\ cloud' = s.cloud
  /\ queue' = s.queue
  /\ stale' = s.stale
  /\ ttsStatus' = s.ttsStatus
  /\ heartbeat' = s.heartbeat
  /\ playbackState' = s.playbackState
  /\ handlers' = s.handlers
  /\ positionState' = s.positionState
  /\ last' = IF Core(s) = Core(Cur(FALSE)) THEN last ELSE o
  /\ quiet' = q

CommitState(s, o, q) == CommitEngine(s, o, q) /\ hook' = hook

Commit(s, o, q) ==
  /\ CommitState(s, o, q)
  /\ run' = IF run.on THEN [run EXCEPT !.ev = @ \o Reported(s)]
            ELSE IF run.audit THEN [run EXCEPT !.told = ToldAfter(s, @)]
            ELSE run

\* a caller event (onLineEnd, onIsPlayingChange, ...) with its integer argument
Emit(s, name, v) ==
  [s EXCEPT !.log = Append(@, [k |-> "emit", name |-> name, v |-> v, arg |-> <<>>])]

\* a call on an adapter or on the OS media session, with what it is handed
Call(s, name, v, arg) ==
  [s EXCEPT !.log = Append(@, [k |-> "call", name |-> name, v |-> v, arg |-> arg])]

NoCloud == [src |-> {}, playing |-> FALSE, onended |-> {}]
NoHandlers == [a \in MediaActions |-> {}]

InitState ==
  /\ isRestarting = FALSE
  /\ timer = 0
  /\ timers = {}
  /\ currentBookId = "null"
  /\ silentPlaying = FALSE
  /\ cloud = NoCloud
  /\ queue = <<>>
  /\ stale = {}
  /\ ttsStatus = "idle"
  /\ heartbeat = 0
  /\ playbackState = "none"
  /\ handlers = NoHandlers
  /\ positionState = {}
  /\ last = "init"
  /\ quiet = "none"

Init == InitState /\ run = NoRun /\ hook = NoHook

\* ------------------------------------------------------------- TTSNative
clearHeartbeat(s) == [s EXCEPT !.heartbeat = 0]

startHeartbeat(s) == [clearHeartbeat(s) EXCEPT !.heartbeat = @ + 1]

\* what the platform can still deliver to a cancelled utterance: end or error
\* when it had started, error alone when it had not; the error closure does not
\* read its line, so an utterance that had not started is kept without it
Cancelled(u) ==
  IF u.started THEN [index |-> u.index, cfg |-> u.cfg, started |-> TRUE]
  ELSE [index |-> 0, cfg |-> MkCfg("", 0, 0, NoVoice), started |-> FALSE]

\* speechSynthesis.cancel(): the queue is emptied at once; the platform may
\* still fire a late event on an utterance it was holding (s.late), and the
\* model keeps at most MaxStale such utterances
synthCancel(s) ==
  [s EXCEPT !.queue = <<>>,
            !.stale = IF s.late /\ s.queue # <<>> /\ Cardinality(s.stale) < MaxStale
                      THEN @ \cup {Cancelled(Head(s.queue))} ELSE @]

\* mutant: TTSNative.stop leaves the keep-alive interval running
ttsStop_keepsHeartbeat(s) ==
  LET s1 == [s EXCEPT !.ttsStatus = "idle"]
      s3 == synthCancel(s1)
  IN  Call(s3, "ttsStop", 0, <<>>)

ttsStop(s) ==
  LET s1 == [s EXCEPT !.ttsStatus = "idle"]
      s2 == clearHeartbeat(s1)
      s3 == synthCancel(s2)
  IN  Call(s3, "ttsStop", 0, <<>>)

\* TTSNative.speak: onEnd / onError are the engine's closures over (index, cfg)
ttsSpeak(s, text, index, cfg) ==
  LET s1 == ttsStop(s)
      u  == [index |-> index, cfg |-> cfg, text |-> text, started |-> FALSE]
      s2 == [s1 EXCEPT !.queue = Append(@, u)]
  IN  Call(s2, "speak", index, text)

\* --------------------------------------------------------- SpeechService
\* mutant: clearTimeout is never reached
clearTimer_skipped(s) == s

clearTimer(s) ==
  IF s.timer # 0 THEN [s EXCEPT !.timers = { t \in @ : t.id # s.timer }] ELSE s

\* mutant: stopCloud leaves the ended handler registered
stopCloud_keepsOnended(s) ==
  LET s1 == [s EXCEPT !.cloud = [NoCloud EXCEPT !.onended = s.cloud.onended]]
  IN  Call(s1, "stopCloud", 0, <<>>)

stopCloud(s) ==
  LET s1 == [s EXCEPT !.cloud = NoCloud]
  IN  Call(s1, "stopCloud", 0, <<>>)

\* mutant: pause leaves the pending resume timer alone
pause_keepsTimer(s) ==
  LET s2 == [s EXCEPT !.silentPlaying = FALSE]
      s3 == stopCloud(s2)
      s4 == ttsStop(s3)
  IN  [s4 EXCEPT !.playbackState = "paused"]

\* mutant: pause leaves the cloud audio element alone
pause_noStopCloud(s) ==
  LET s1 == clearTimer(s)
      s2 == [s1 EXCEPT !.silentPlaying = FALSE]
      s4 == ttsStop(s2)
  IN  [s4 EXCEPT !.playbackState = "paused"]

pause(s) ==
  LET s1 == clearTimer(s)
      s2 == [s1 EXCEPT !.silentPlaying = FALSE]
      s3 == stopCloud(s2)
      s4 == ttsStop(s3)
  IN  [s4 EXCEPT !.playbackState = "paused"]

clearMediaSession(s) == [s EXCEPT !.handlers = NoHandlers]

\* mutant: stop leaves the OS action handlers bound
stop_keepsHandlers(s) ==
  LET s1 == [s EXCEPT !.isRestarting = FALSE]
      s2 == clearTimer(s1)
      s3 == [s2 EXCEPT !.silentPlaying = FALSE]
      s4 == stopCloud(s3)
      s5 == ttsStop(s4)
      s6 == [s5 EXCEPT !.playbackState = "none"]
  IN  Emit(s6, "isPlaying", 0)

stop(s) ==
  LET s1 == [s EXCEPT !.isRestarting = FALSE]
      s2 == clearTimer(s1)
      s3 == [s2 EXCEPT !.silentPlaying = FALSE]
      s4 == stopCloud(s3)
      s5 == ttsStop(s4)
      s6 == clearMediaSession([s5 EXCEPT !.playbackState = "none"])
  IN  Emit(s6, "isPlaying", 0)

\* mutant: a play handler that is already bound is left as it is
updateActionHandlers_keepsPlay(s, index, cfg) ==
  [s EXCEPT !.handlers = [a \in MediaActions |->
                            IF a = "play" /\ s.handlers[a] # {} THEN s.handlers[a]
                            ELSE {[index |-> index, cfg |-> cfg]}]]

updateActionHandlers(s, index, cfg) ==
  [s EXCEPT !.handlers = [a \in MediaActions |-> {[index |-> index, cfg |-> cfg]}]]

\* mutant: the metadata is written on every play
setupMediaSession_always(s, index, cfg) ==
  LET s1 == Call([s EXCEPT !.currentBookId = cfg.bookId], "metadata", 0, <<>>)
      s2 == [s1 EXCEPT !.positionState =
                         {[duration |-> cfg.totalLines,
                           playbackRate |-> IF cfg.rate # NoRate THEN cfg.rate
                                            ELSE DEFAULT_RATE,
                           position |-> index]}]
  IN  updateActionHandlers(s2, index, cfg)

\* mutant: the position state carries configs.rate as given, without the default
setupMediaSession_rawRate(s, index, cfg) ==
  LET s1 == IF s.currentBookId # cfg.bookId
            THEN Call([s EXCEPT !.currentBookId = cfg.bookId], "metadata", 0, <<>>)
            ELSE s
      s2 == [s1 EXCEPT !.positionState =
                         {[duration |-> cfg.totalLines, playbackRate |-> cfg.rate,
                           position |-> index]}]
  IN  updateActionHandlers(s2, index, cfg)

setupMediaSession(s, index, cfg) ==
  LET s1 == IF s.currentBookId # cfg.bookId
            THEN Call([s EXCEPT !.currentBookId = cfg.bookId], "metadata", 0, <<>>)
            ELSE s
      s2 == [s1 EXCEPT !.positionState =
                         {[duration |-> cfg.totalLines,
                           playbackRate |-> IF cfg.rate # NoRate THEN cfg.rate
                                            ELSE DEFAULT_RATE,
                           position |-> index]}]
  IN  updateActionHandlers(s2, index, cfg)

CloudSrc(index, cfg) == <<cfg.bookId, index, cfg.selectedVoice.id>>

\* mutant: the audio URL is built for the following line
startCloudSpeech_nextSrc(s, index, cfg) ==
  LET s1 == [s EXCEPT !.cloud = [src |-> {CloudSrc(index + 1, cfg)}, playing |-> TRUE,
                                  onended |-> {[index |-> index, cfg |-> cfg]}]]
  IN  Call(s1, "cloudPlay", index, CloudSrc(index + 1, cfg))

startCloudSpeech(s, index, cfg) ==
  LET s1 == [s EXCEPT !.cloud = [src |-> {CloudSrc(index, cfg)}, playing |-> TRUE,
                                  onended |-> {[index |-> index, cfg |-> cfg]}]]
  IN  Call(s1, "cloudPlay", index, CloudSrc(index, cfg))

startSystemSpeech(s, index, cfg) ==
  ttsSpeak(s, cfg.lines[index + 1], index, cfg)

\* mutant: the cloud branch does not stop the on-device adapter first
play_noExclusion(s, index, cfg) ==
  IF cfg.bookId = "" \/ cfg.totalLines = 0 \/ cfg.selectedVoice.type = "null"
  THEN s
  ELSE IF index < 0 \/ index >= cfg.totalLines
  THEN Emit(Emit(s, "isPlaying", 0), "bookCompleted", 0)
  ELSE IF index >= Len(cfg.lines)
  THEN Emit(pause(s), "loadMoreLines", index)
  ELSE LET s1 == [s EXCEPT !.silentPlaying = TRUE]
           s2 == setupMediaSession(s1, index, cfg)
           s3 == [s2 EXCEPT !.playbackState = "playing"]
       IN  IF cfg.selectedVoice.type = "cloud"
           THEN startCloudSpeech(s3, index, cfg)
           ELSE startSystemSpeech(stopCloud(s3), index, cfg)

\* mutant: the boundary check lets index = totalLines through
play_lateBoundary(s, index, cfg) ==
  IF cfg.bookId = "" \/ cfg.totalLines = 0 \/ cfg.selectedVoice.type = "null"
  THEN s
  ELSE IF index < 0 \/ index > cfg.totalLines
  THEN Emit(Emit(s, "isPlaying", 0), "bookCompleted", 0)
  ELSE IF index >= Len(cfg.lines)
  THEN Emit(pause(s), "loadMoreLines", index)
  ELSE LET s1 == [s EXCEPT !.silentPlaying = TRUE]
           s2 == setupMediaSession(s1, index, cfg)
           s3 == [s2 EXCEPT !.playbackState = "playing"]
       IN  IF cfg.selectedVoice.type = "cloud"
           THEN startCloudSpeech(ttsStop(s3), index, cfg)
           ELSE startSystemSpeech(stopCloud(s3), index, cfg)

\* mutant: the system branch speaks without unloading the cloud element
play_noStopCloud(s, index, cfg) ==
  IF cfg.bookId = "" \/ cfg.totalLines = 0 \/ cfg.selectedVoice.type = "null"
  THEN s
  ELSE IF index < 0 \/ index >= cfg.totalLines
  THEN Emit(Emit(s, "isPlaying", 0), "bookCompleted", 0)
  ELSE IF index >= Len(cfg.lines)
  THEN Emit(pause(s), "loadMoreLines", index)
  ELSE LET s1 == [s EXCEPT !.silentPlaying = TRUE]
           s2 == setupMediaSession(s1, index, cfg)
           s3 == [s2 EXCEPT !.playbackState = "playing"]
       IN  IF cfg.selectedVoice.type = "cloud"
           THEN startCloudSpeech(ttsStop(s3), index, cfg)
           ELSE startSystemSpeech(s3, index, cfg)

\* mutant: the precondition check is missing
play_noPrecondition(s, index, cfg) ==
  IF index < 0 \/ index >= cfg.totalLines
  THEN Emit(Emit(s, "isPlaying", 0), "bookCompleted", 0)
  ELSE IF index >= Len(cfg.lines)
  THEN Emit(pause(s), "loadMoreLines", index)
  ELSE LET s1 == [s EXCEPT !.silentPlaying = TRUE]
           s2 == setupMediaSession(s1, index, cfg)
           s3 == [s2 EXCEPT !.playbackState = "playing"]
       IN  IF cfg.selectedVoice.type = "cloud"
           THEN startCloudSpeech(ttsStop(s3), index, cfg)
           ELSE startSystemSpeech(stopCloud(s3), index, cfg)

play(s, index, cfg) ==
  IF cfg.bookId = "" \/ cfg.totalLines = 0 \/ cfg.selectedVoice.type = "null"
  THEN s
  ELSE IF index < 0 \/ index >= cfg.totalLines
  THEN Emit(Emit(s, "isPlaying", 0), "bookCompleted", 0)
  ELSE IF index >= Len(cfg.lines)
  THEN Emit(pause(s), "loadMoreLines", index)
  ELSE LET s1 == [s EXCEPT !.silentPlaying = TRUE]
           s2 == setupMediaSession(s1, index, cfg)
           s3 == [s2 EXCEPT !.playbackState = "playing"]
       IN  IF cfg.selectedVoice.type = "cloud"
           THEN startCloudSpeech(ttsStop(s3), index, cfg)
           ELSE startSystemSpeech(stopCloud(s3), index, cfg)

start(s, index, cfg) == play(Emit(s, "isPlaying", 1), index, cfg)

NewTimerId(s) == CHOOSE n \in 1..(Cardinality(s.timers) + 1) :
                   \A t \in s.timers : t.id # n

resume(s, index, cfg) ==
  LET s1 == clearTimer(s)
      s2 == pause(s1)
      s3 == [s2 EXCEPT !.isRestarting = TRUE]
      id == NewTimerId(s3)
  IN  [s3 EXCEPT !.timer = id,
                 !.timers = @ \cup {[id |-> id, index |-> index, cfg |-> cfg,
                                     delay |-> RESUME_DELAY]}]

\* the setTimeout callback of resume
resumeCallback(s, index, cfg) ==
  [play(s, index, cfg) EXCEPT !.isRestarting = FALSE]

\* mutant: the completion closure starts the next line before it reports
onEndHandler_startFirst(s, index, cfg) ==
  Emit(start(s, index + 1, cfg), "lineEnd", index + 1)

\* completion closure registered on either adapter
onEndHandler(s, index, cfg) ==
  start(Emit(s, "lineEnd", index + 1), index + 1, cfg)

\* error closure registered on the on-device adapter
onErrorHandler(s) ==
  IF ~s.isRestarting THEN Emit(s, "isPlaying", 0) ELSE s

\* the handlers TTSNative.speak binds on its utterance
utteranceOnStart(s) == startHeartbeat([s EXCEPT !.ttsStatus = "speaking"])

utteranceOnEnd(s, index, cfg) ==
  onEndHandler(clearHeartbeat([s EXCEPT !.ttsStatus = "idle"]), index, cfg)

utteranceOnError(s) ==
  onErrorHandler(clearHeartbeat([s EXCEPT !.ttsStatus = "idle"]))

\* cloudAudio.onerror, bound in the constructor
cloudOnError(s) == Emit(s, "isPlaying", 0)

\* the catch of cloudAudio.play(): either branch writes to the console only
cloudPlayCatch(s, name) == IF name # "AbortError" THEN s ELSE s

\* ---------------------------------------------------------------- actions
\* whether the platform keeps a cancelled utterance alive is its choice; the
\* choice exists only when an utterance is queued and the model has room
Late == IF queue # <<>> /\ Cardinality(stale) < MaxStale THEN BOOLEAN ELSE {FALSE}

\* history bookkeeping for quiet
NotLoaded(index, cfg) ==
  /\ cfg.bookId # "" /\ cfg.totalLines > 0 /\ cfg.selectedVoice.type # "null"
  /\ Len(cfg.lines) <= index /\ index < cfg.totalLines

OutOfBook(index, cfg) ==
  /\ cfg.bookId # "" /\ cfg.totalLines > 0 /\ cfg.selectedVoice.type # "null"
  /\ (index < 0 \/ index >= cfg.totalLines)

AfterStart(index, cfg) ==
  IF NotLoaded(index, cfg) THEN "loadMore"
  ELSE "none"
AfterPause == IF quiet = "loadMore" THEN "loadMore" ELSE "none"
AfterFire(t) == AfterStart(t.index, t.cfg)

\* caller operations
Start ==
  \E a \in Inputs, late \in Late :
    Commit(start(Cur(late), a.index, a.cfg), "start", AfterStart(a.index, a.cfg))

Pause ==
  \E late \in Late : Commit(pause(Cur(late)), "pause", AfterPause)

Stop ==
  \E late \in Late : Commit(stop(Cur(late)), "stop", AfterPause)

Resume ==
  \E a \in Inputs, late \in Late :
    Commit(resume(Cur(late), a.index, a.cfg),
           IF cloud.playing /\ a.cfg.selectedVoice.type = "system" THEN "resumeSwitch"
           ELSE IF timers # {} THEN "resumeAgain" ELSE "resume", "none")

\* the resume timeout elapses
TimerFire ==
  \E t \in timers, late \in Late :
    LET s == [Cur(late) EXCEPT !.timers = @ \ {t}]
    IN  Commit(resumeCallback(s, t.index, t.cfg), "timerFire", AfterFire(t))

\* speechSynthesis events on the utterance at the head of the queue
UtterStart ==
  /\ queue # <<>> /\ ~Head(queue).started
  /\ LET s == [Cur(FALSE) EXCEPT !.queue = <<[Head(queue) EXCEPT !.started = TRUE]>> \o Tail(queue)]
     IN  Commit(utteranceOnStart(s), "utterStart", quiet)

UtterEnd ==
  /\ queue # <<>> /\ Head(queue).started
  /\ LET u == Head(queue)
         s == [Cur(FALSE) EXCEPT !.queue = Tail(queue)]
     IN  Commit(utteranceOnEnd(s, u.index, u.cfg),
                IF OutOfBook(u.index + 1, u.cfg) THEN "bookEnded" ELSE "ended",
                AfterStart(u.index + 1, u.cfg))

UtterError ==
  /\ queue # <<>>
  /\ LET s == [Cur(FALSE) EXCEPT !.queue = Tail(queue)]
     IN  Commit(utteranceOnError(s), "error", quiet)

\* late events on an utterance that was cancelled while the platform held it
StaleEnd ==
  \E u \in stale, late \in (IF queue # <<>> THEN BOOLEAN ELSE {FALSE}) :
    /\ u.started
    /\ LET s == [Cur(late) EXCEPT !.stale = @ \ {u}]
       IN  Commit(utteranceOnEnd(s, u.index, u.cfg),
                  IF OutOfBook(u.index + 1, u.cfg) THEN "bookEnded" ELSE "ended",
                  AfterStart(u.index + 1, u.cfg))

StaleError ==
  \E u \in stale :
    LET s == [Cur(FALSE) EXCEPT !.stale = @ \ {u}]
    IN  Commit(utteranceOnError(s), "error", quiet)

\* cloudAudio events
CloudEnded ==
  \E h \in cloud.onended :
    /\ cloud.playing
    /\ LET s == [Cur(FALSE) EXCEPT !.cloud.playing = FALSE]
       IN  Commit(onEndHandler(s, h.index, h.cfg),
                  IF OutOfBook(h.index + 1, h.cfg) THEN "bookEnded" ELSE "ended",
                  AfterStart(h.index + 1, h.cfg))

CloudError ==
  /\ cloud.playing
  /\ LET s == [Cur(FALSE) EXCEPT !.cloud.playing = FALSE]
     IN  Commit(cloudOnError(s), "error", quiet)

\* cloudAudio.play() rejects with an error other than AbortError: logged only
CloudPlayRejected ==
  /\ cloud.playing
  /\ Commit(cloudPlayCatch([Cur(FALSE) EXCEPT !.cloud.playing = FALSE], "NotAllowedError"),
            "error", quiet)

\* OS transport controls
Min(a, b) == IF a < b THEN a ELSE b
Max(a, b) == IF a > b THEN a ELSE b

MediaPlay ==
  \E h \in handlers["play"], late \in Late :
    Commit(start(Cur(late), h.index, h.cfg), "start", AfterStart(h.index, h.cfg))

MediaPause ==
  /\ handlers["pause"] # {}
  /\ \E late \in Late : Commit(pause(Cur(late)), "pause", AfterPause)

\* mutant: the nexttrack closure does not clamp to the loaded lines
nexttrackHandler_unclamped(s, index, cfg) ==
  LET next == index + 1
  IN  resume(Emit(s, "lineEnd", next), next, cfg)

\* the closures updateActionHandlers binds to nexttrack and previoustrack
nexttrackHandler(s, index, cfg) ==
  LET next == Min(index + 1, Len(cfg.lines) - 1)
  IN  resume(Emit(s, "lineEnd", next), next, cfg)

previoustrackHandler(s, index, cfg) ==
  LET prev == Max(index - 1, 0)
  IN  resume(Emit(s, "lineEnd", prev), prev, cfg)

MediaNext ==
  \E h \in handlers["nexttrack"], late \in Late :
    Commit(nexttrackHandler(Cur(late), h.index, h.cfg),
           IF timers # {} THEN "resumeAgain" ELSE "resume", "none")

MediaPrev ==
  \E h \in handlers["previoustrack"], late \in Late :
    Commit(previoustrackHandler(Cur(late), h.index, h.cfg),
           IF timers # {} THEN "resumeAgain" ELSE "resume", "none")

Next ==
  \/ Start \/ Pause \/ Stop \/ Resume \/ TimerFire
  \/ UtterStart \/ UtterEnd \/ UtterError \/ StaleEnd \/ StaleError
  \/ CloudEnded \/ CloudError \/ CloudPlayRejected
  \/ MediaPlay \/ MediaPause \/ MediaNext \/ MediaPrev

Spec == Init /\ [][Next]_vars

TypeOK ==
  /\ isRestarting \in BOOLEAN
  /\ Cardinality(stale) <= MaxStale
  /\ heartbeat \in 0..1

\* ------------------------------------------------------- claim vocabulary
Valid(cfg) == cfg.bookId # "" /\ cfg.totalLines > 0 /\ cfg.selectedVoice.type # "null"
OutOfRange(a) == Valid(a.cfg) /\ (a.index < 0 \/ a.index >= a.cfg.totalLines)
Dispatchable(a) ==
  Valid(a.cfg) /\ 0 <= a.index /\ a.index < a.cfg.totalLines /\ a.index < Len(a.cfg.lines)

TtsActive == queue # <<>>
CloudActive == cloud.playing
Idle(s) == s.queue = <<>> /\ ~s.cloud.playing

\* positions of a step's log holding one of the named calls / events
CallsAt(s, names) == { p \in 1..Len(s.log) : s.log[p].k = "call" /\ s.log[p].name \in names }
EmitsAt(s, name)  == { p \in 1..Len(s.log) : s.log[p].k = "emit" /\ s.log[p].name = name }
Emitted(s, name, v) == \E p \in EmitsAt(s, name) : s.log[p].v = v
Dispatches(s) == CallsAt(s, {"speak", "cloudPlay"})

\* ------------------------------------------------------------------ claims

\* C1: in every reachable state at most one of the two adapters is active, and
\* the active adapter renders exactly one line (one queued or spoken utterance,
\* or one audio source).
C1_OneActiveLine ==
  /\ ~(TtsActive /\ CloudActive)
  /\ Len(queue) <= 1
  /\ CloudActive => Cardinality(cloud.src) = 1

\* a start has superseded a spoken line and handed the cloud adapter a line
\* while the platform still holds the cancelled utterance
C1_Witness == last = "start" /\ CloudActive /\ ~TtsActive /\ stale # {}

\* C2 (as claimed): an end event of an utterance that has been superseded emits
\* no onLineEnd and starts no line.
C2_StaleEndInert ==
  \A u \in stale :
    u.started =>
      LET r == utteranceOnEnd([Cur(FALSE) EXCEPT !.stale = @ \ {u}], u.index, u.cfg)
      IN  EmitsAt(r, "lineEnd") = {} /\ Dispatches(r) = {}

\* C3: start(index, config) on a loaded, in-range line of a valid config hands
\* exactly that line to the adapter of selectedVoice.type (the text of line
\* index for system, the URL of (bookId, index, voice id) for cloud), after a
\* stop of the other adapter, and only that adapter is active afterwards.
C3_StartDispatches ==
  \A a \in Inputs, l \in Late :
    Dispatchable(a) =>
      LET r == start(Cur(l), a.index, a.cfg)
          sys == a.cfg.selectedVoice.type = "system"
      IN  /\ Cardinality(Dispatches(r)) = 1
          /\ \A p \in Dispatches(r) :
               /\ r.log[p].name = (IF sys THEN "speak" ELSE "cloudPlay")
               /\ r.log[p].v = a.index
               /\ r.log[p].arg = (IF sys THEN TextOf(a.cfg.bookId, a.index)
                                  ELSE <<a.cfg.bookId, a.index, a.cfg.selectedVoice.id>>)
               /\ \E q \in CallsAt(r, {IF sys THEN "stopCloud" ELSE "ttsStop"}) : q < p
          /\ IF sys
             THEN /\ Len(r.queue) = 1 /\ Head(r.queue).text = TextOf(a.cfg.bookId, a.index)
                  /\ ~r.cloud.playing
             ELSE /\ r.queue = <<>> /\ r.cloud.playing
                  /\ r.cloud.src = {<<a.cfg.bookId, a.index, a.cfg.selectedVoice.id>>}

\* start has just handed line 1 of book A to the cloud adapter
C3_Witness ==
  /\ last = "start" /\ queue = <<>> /\ cloud.playing
  /\ cloud.src = {<<"A", 1, "google-1">>}

\* C4: start(index, config) with index < 0 or index >= totalLines emits
\* onIsPlayingChange(false) and then onBookCompleted, and starts no adapter.
C4_OutOfRangeCompletes ==
  \A a \in Inputs, l \in Late :
    OutOfRange(a) =>
      LET r == start(Cur(l), a.index, a.cfg)
      IN  /\ \E p \in EmitsAt(r, "isPlaying"), q \in EmitsAt(r, "bookCompleted") :
               r.log[p].v = 0 /\ p < q
          /\ Cardinality(EmitsAt(r, "bookCompleted")) = 1
          /\ Dispatches(r) = {}
          /\ r.queue = queue /\ r.cloud = cloud

\* the last line of the book has ended and its completion closure has called
\* start(totalLines, config): the book is reported completed, nothing plays
C4_Witness ==
  /\ last = "bookEnded" /\ ~TtsActive /\ ~CloudActive
  /\ playbackState = "playing"

C6_PreconditionSilent ==
  /\ \A a \in Inputs, l \in Late :
       ~Valid(a.cfg) => start(Cur(l), a.index, a.cfg) = Cur(l)
  /\ \A t \in timers, l \in Late :
       ~Valid(t.cfg) => play(Cur(l), t.index, t.cfg) = Cur(l)

\* C7 (as claimed): start(i, config) for a loaded, in-range line leaves no
\* earlier debounced resume pending, so that resume cannot fire later and
\* replace line i.
C7_StartCancelsResume ==
  \A a \in Inputs, l \in Late :
    Dispatchable(a) => start(Cur(l), a.index, a.cfg).timers = {}

\* C8: at most one play is scheduled at any moment, and a resume, whether or
\* not an earlier one is pending, leaves exactly one scheduled: its own
\* (index, config), due after 1000 ms; firing it performs that play and
\* leaves none scheduled.
C8_OneScheduledPlay ==
  /\ Cardinality(timers) <= 1
  /\ \A a \in Inputs, l \in Late :
       LET r == resume(Cur(l), a.index, a.cfg)
       IN  r.timers = {[id |-> r.timer, index |-> a.index, cfg |-> a.cfg,
                        delay |-> RESUME_DELAY]}
  /\ \A t \in timers, l \in Late :
       LET r == resumeCallback([Cur(l) EXCEPT !.timers = @ \ {t}], t.index, t.cfg)
       IN  /\ r.timers = {}
           /\ Dispatchable(t) =>
                /\ Cardinality(Dispatches(r)) = 1
                /\ \A p \in Dispatches(r) : r.log[p].v = t.index

\* a second resume came while the first was pending, and one play is scheduled
C8_Witness ==
  /\ last = "resumeAgain" /\ Cardinality(timers) = 1
  /\ \E t \in timers : t.index = 1 /\ t.cfg.selectedVoice.type = "cloud"

\* C9 (as claimed): isRestarting is true only while the resume timer is
\* scheduled, not fired and not cancelled.
C9_GuardOnlyWhilePending ==
  isRestarting => \E t \in timers : t.id = timer

\* C10 (as claimed): resume stops both adapters at once, starts none and
\* emits no onIsPlayingChange(false); from the call until its timer fires both
\* adapters are idle, and the late error of the utterance it interrupted emits
\* no onIsPlayingChange(false).
C10_ResumeWindowIdle ==
  /\ \A a \in Inputs, l \in Late :
       LET r == resume(Cur(l), a.index, a.cfg)
       IN  Idle(r) /\ Dispatches(r) = {} /\ ~Emitted(r, "isPlaying", 0)
  /\ timers # {} =>
       /\ ~TtsActive /\ ~CloudActive
       /\ \A u \in stale :
            ~Emitted(utteranceOnError([Cur(FALSE) EXCEPT !.stale = @ \ {u}]), "isPlaying", 0)


\* ------------------------------------------------ following a playthrough
\* a start() on a fully loaded book is put under observation after some
\* earlier use of the engine; from then on only timers and adapter events run
FullyLoaded(a) == Dispatchable(a) /\ Len(a.cfg.lines) = a.cfg.totalLines

BeforeStart == ~run.on /\ Start
BeforeResume == ~run.on /\ Resume
BeforeUtterStart == ~run.on /\ UtterStart

RunStart ==
  /\ ~run.on
  /\ \E a \in Inputs, late \in Late :
       /\ FullyLoaded(a)
       /\ CommitState(start(Cur(late), a.index, a.cfg), "start", "none")
       /\ run' = [run EXCEPT !.on = TRUE, !.index = a.index, !.cfg = a.cfg]

RunTimerFire == run.on /\ TimerFire
RunUtterStart == run.on /\ UtterStart
RunUtterEnd == run.on /\ UtterEnd
RunCloudEnded == run.on /\ CloudEnded
RunStaleEnd == run.on /\ StaleEnd
RunStaleError == run.on /\ StaleError

RunNext ==
  \/ BeforeStart \/ BeforeResume \/ BeforeUtterStart \/ RunStart
  \/ RunTimerFire \/ RunUtterStart \/ RunUtterEnd \/ RunCloudEnded
  \/ RunStaleEnd \/ RunStaleError

RunSpec == Init /\ [][RunNext]_vars

\* what the caller is to be told after start(i, cfg) on a fully loaded book
Expected(i, cfg) ==
  [k \in 1..(cfg.totalLines - i) |-> <<"lineEnd", i + k>>]
    \o << <<"isPlaying", 0>>, <<"bookCompleted", 0>> >>

IsPrefix(s, t) == Len(s) <= Len(t) /\ \A p \in 1..Len(s) : s[p] = t[p]

\* C12 (as claimed): after start(i, config) on a fully loaded book, with no
\* caller or OS operation since and every line ending naturally, what the
\* engine has told the caller is at every moment a prefix of onLineEnd(i+1),
\* ..., onLineEnd(totalLines), onIsPlayingChange(false), onBookCompleted, and
\* once all of it is told no adapter is active.
C12_PlaysBookToEnd ==
  run.on =>
    /\ IsPrefix(run.ev, Expected(run.index, run.cfg))
    /\ run.ev = Expected(run.index, run.cfg) => ~TtsActive /\ ~CloudActive

\* the step log of the natural completion of the line an adapter is rendering
EndsOf ==
  { utteranceOnEnd([Cur(FALSE) EXCEPT !.queue = Tail(queue)], Head(queue).index, Head(queue).cfg) :
      x \in (IF queue # <<>> /\ Head(queue).started THEN {1} ELSE {}) }
  \cup
  { onEndHandler([Cur(FALSE) EXCEPT !.cloud.playing = FALSE], h.index, h.cfg) :
      h \in (IF cloud.playing THEN cloud.onended ELSE {}) }

\* the line an adapter is rendering
Rendering ==
  { Head(queue).index : x \in (IF queue # <<>> THEN {1} ELSE {}) }
  \cup { h.index : h \in (IF cloud.playing THEN cloud.onended ELSE {}) }

\* C11: when the line i an adapter is rendering ends naturally, the first thing
\* the engine does is emit onLineEnd(i + 1), once; the onIsPlayingChange(true)
\* of the next start and every adapter dispatch come after it, and a dispatch
\* is for line i + 1.
C11_LineEndBeforeNextPlay ==
  \A r \in EndsOf :
    /\ Len(r.log) >= 2
    /\ r.log[1].k = "emit" /\ r.log[1].name = "lineEnd"
    /\ Cardinality(EmitsAt(r, "lineEnd")) = 1
    /\ r.log[2] = [k |-> "emit", name |-> "isPlaying", v |-> 1, arg |-> <<>>]
    /\ \A p \in Dispatches(r) : p > 2 /\ r.log[p].v = r.log[1].v
    /\ \E i \in Rendering : r.log[1].v = i + 1

\* line 0 has just ended on the cloud adapter and line 1 is playing
C11_Witness ==
  /\ last = "ended" /\ cloud.playing
  /\ \E h \in cloud.onended : h.index = 1

\* C13: stop() from any reachable state leaves the restart guard false, no
\* resume timer pending, the keep-alive cue stopped, the on-device queue empty,
\* the cloud element unloaded (paused, no source, no ended handler), the four
\* OS action handlers unbound and the OS playback state 'none', and emits
\* onIsPlayingChange(false) once and no other onIsPlayingChange.
C13_StopResetsAll ==
  \A l \in Late :
    LET r == stop(Cur(l))
    IN  /\ ~r.isRestarting
        /\ r.timers = {}
        /\ ~r.silentPlaying
        /\ r.queue = <<>> /\ r.ttsStatus = "idle"
        /\ r.cloud = NoCloud
        /\ \A a \in MediaActions : r.handlers[a] = {}
        /\ r.playbackState = "none"
        /\ Cardinality(EmitsAt(r, "isPlaying")) = 1 /\ Emitted(r, "isPlaying", 0)

\* stop() has just run on an engine that had played and was speaking
C13_Witness ==
  /\ last = "stop" /\ stale # {} /\ currentBookId # "null"
  /\ playbackState = "none" /\ handlers = NoHandlers

\* C14: pause() from any reachable state leaves no resume timer pending, the
\* keep-alive cue stopped, both adapters idle with no cloud ended handler and
\* the OS playback state 'paused', and emits no onIsPlayingChange; a second
\* pause() changes nothing and emits nothing.
C14_PauseQuietIdempotent ==
  \A l \in Late :
    LET r == pause(Cur(l))
        r2 == pause([r EXCEPT !.log = <<>>])
    IN  /\ r.timers = {}
        /\ ~r.silentPlaying
        /\ Idle(r) /\ r.cloud.onended = {}
        /\ r.playbackState = "paused"
        /\ EmitsAt(r, "isPlaying") = {}
        /\ Core(r2) = Core(r)
        /\ \A p \in 1..Len(r2.log) : r2.log[p].k # "emit"

\* pause() has just interrupted a line that was being spoken
C14_Witness ==
  /\ last = "pause" /\ stale # {} /\ playbackState = "paused"

\* C15 (as claimed): a failure of the line being rendered (a synthesis error,
\* an error event of the cloud audio element, a rejection of the cloud play
\* promise that is not an AbortError) emits onIsPlayingChange(false) and
\* dispatches nothing.
C15_FailureSurfaced ==
  /\ queue # <<>> =>
       LET r == utteranceOnError([Cur(FALSE) EXCEPT !.queue = Tail(queue)])
       IN  Emitted(r, "isPlaying", 0) /\ Dispatches(r) = {}
  /\ cloud.playing =>
       LET s == [Cur(FALSE) EXCEPT !.cloud.playing = FALSE]
       IN  /\ Emitted(cloudOnError(s), "isPlaying", 0)
           /\ Dispatches(cloudOnError(s)) = {}
           /\ Emitted(cloudPlayCatch(s, "NotAllowedError"), "isPlaying", 0)
           /\ Dispatches(cloudPlayCatch(s, "NotAllowedError")) = {}

\* --------------------------------------------- what the caller has been told
\* the engine in use, with the caller's copy of onIsPlayingChange kept
AuditInit == InitState /\ run = [NoRun EXCEPT !.audit = TRUE] /\ hook = NoHook

AuditSpec == AuditInit /\ [][Next]_vars

\* C16 (as claimed): whenever an adapter is rendering a line, the last
\* onIsPlayingChange value delivered to the caller is true.
C16_ToldPlayingWhileActive ==
  (TtsActive \/ CloudActive) => run.told = "true"

\* C17: the cloud element has at most one ended handler, and it is the one of
\* the play that set the element's current source; pause, stop and a
\* system-voice play leave none, and a cloud play leaves exactly its own.
C17_OneCloudHandler ==
  /\ Cardinality(cloud.onended) <= 1
  /\ \A h \in cloud.onended : cloud.src = {CloudSrc(h.index, h.cfg)}
  /\ \A l \in Late :
       /\ stopCloud(Cur(l)).cloud.onended = {}
       /\ pause(Cur(l)).cloud.onended = {}
       /\ stop(Cur(l)).cloud.onended = {}
       /\ \A a \in Inputs :
            Dispatchable(a) =>
              LET r == play(Cur(l), a.index, a.cfg)
              IN  IF a.cfg.selectedVoice.type = "cloud"
                  THEN r.cloud.onended = {[index |-> a.index, cfg |-> a.cfg]}
                  ELSE r.cloud.onended = {}

\* a debounced resume has put line 1 on the cloud element
C17_Witness ==
  /\ last = "timerFire" /\ cloud.playing
  /\ cloud.onended = {[index |-> 1, cfg |-> MkCfg("A", MaxTotal, MaxTotal, CloudVoice)]}

\* C18: resume(index, config) with a system voice unloads the cloud element at
\* once and speaks nothing; when its timer fires, whatever has run in between,
\* the cloud element is unloaded before the on-device adapter is asked to
\* speak, and is still unloaded afterwards.
C18_UnloadBeforeSpeak ==
  /\ \A a \in Inputs, l \in Late :
       a.cfg.selectedVoice.type = "system" =>
         LET r == resume(Cur(l), a.index, a.cfg)
         IN  /\ r.cloud = NoCloud
             /\ CallsAt(r, {"stopCloud"}) # {}
             /\ CallsAt(r, {"speak"}) = {}
  /\ \A t \in timers, l \in Late :
       t.cfg.selectedVoice.type = "system" =>
         LET r == resumeCallback([Cur(l) EXCEPT !.timers = @ \ {t}], t.index, t.cfg)
         IN  /\ \A p \in CallsAt(r, {"speak"}) :
                  \E q \in CallsAt(r, {"stopCloud"}) : q < p
             /\ CallsAt(r, {"speak"}) # {} => r.cloud = NoCloud
             /\ Dispatchable(t) => CallsAt(r, {"speak"}) # {}

\* resume with a system voice has just interrupted cloud playback
C18_Witness ==
  /\ last = "resumeSwitch" /\ cloud = NoCloud /\ ~TtsActive
  /\ \E t \in timers : t.cfg.selectedVoice.type = "system" /\ Dispatchable(t)

C20_MetadataOnBookChange ==
  \A a \in Inputs, l \in Late :
    LET r == start(Cur(l), a.index, a.cfg)
        n == Cardinality(CallsAt(r, {"metadata"}))
    IN  IF Dispatchable(a)
        THEN /\ n = (IF currentBookId # a.cfg.bookId THEN 1 ELSE 0)
             /\ r.currentBookId = a.cfg.bookId
        ELSE n = 0 /\ r.currentBookId = currentBookId

\* book B has been started after book A: the metadata was written again
C20_Witness ==
  /\ last = "start" /\ currentBookId = "B" /\ TtsActive
  /\ \E u \in stale : u.cfg.bookId = "A"

\* the position state the media-session bridge is to hold for a line: rate is
\* the config's speech rate, 1.0 when the config gives none
PositionFor(index, cfg) ==
  [duration |-> cfg.totalLines,
   playbackRate |-> IF cfg.rate = NoRate THEN 1 ELSE cfg.rate,
   position |-> index]

\* C21: every play that hands a line to an adapter (from start, from the
\* debounced resume, or from the advance at the end of a line) leaves the OS
\* position state {duration: totalLines, playbackRate: rate, position: index},
\* a play that hands none leaves the position state alone, and the position
\* state the OS holds always satisfies 0 <= position < duration.
C21_PositionState ==
  /\ \A p \in positionState : 0 <= p.position /\ p.position < p.duration
  /\ \A a \in Inputs, l \in Late :
       LET r == start(Cur(l), a.index, a.cfg)
       IN  r.positionState = IF Dispatches(r) # {} THEN {PositionFor(a.index, a.cfg)}
                             ELSE positionState
  /\ \A t \in timers, l \in Late :
       LET r == resumeCallback([Cur(l) EXCEPT !.timers = @ \ {t}], t.index, t.cfg)
       IN  r.positionState = IF Dispatches(r) # {} THEN {PositionFor(t.index, t.cfg)}
                             ELSE positionState
  /\ queue # <<>> =>
       LET u == Head(queue)
           r == utteranceOnEnd([Cur(FALSE) EXCEPT !.queue = Tail(queue)], u.index, u.cfg)
       IN  r.positionState = IF Dispatches(r) # {} THEN {PositionFor(u.index + 1, u.cfg)}
                             ELSE positionState

\* the debounced resume has dispatched line 0 of a book whose config gives no
\* rate: the position state carries the default rate
C21_Witness ==
  /\ last = "timerFire" /\ TtsActive /\ Head(queue).cfg.rate = NoRate
  /\ positionState = {[duration |-> MaxTotal, playbackRate |-> DEFAULT_RATE, position |-> 0]}

\* what a transport skip to line n of cfg leaves behind: onLineEnd(n) reported
\* once, before anything is asked of an adapter, and the one scheduled play is
\* for (n, cfg)
SkipsTo(r, n, cfg) ==
  /\ EmitsAt(r, "lineEnd") # {}
  /\ \A p \in EmitsAt(r, "lineEnd") :
       r.log[p].v = n /\ \A q \in 1..Len(r.log) : r.log[q].k = "call" => p < q
  /\ Cardinality(EmitsAt(r, "lineEnd")) = 1
  /\ \E t \in r.timers : t.id = r.timer /\ t.index = n /\ t.cfg = cfg
  /\ r.isRestarting /\ Dispatches(r) = {}

\* C22: an OS nexttrack or previoustrack event under handlers bound at index i
\* picks a neighbour n with |n - i| <= 1 and 0 <= n <= lines.length - 1 (so n
\* is loaded and in range), reports onLineEnd(n) and then calls
\* resume(n, config).
C22_SkipClamped ==
  /\ \A h \in handlers["nexttrack"], l \in Late :
       \E n \in {h.index, h.index + 1} :
         /\ 0 <= n /\ n <= Len(h.cfg.lines) - 1
         /\ Dispatchable([index |-> n, cfg |-> h.cfg])
         /\ SkipsTo(nexttrackHandler(Cur(l), h.index, h.cfg), n, h.cfg)
  /\ \A h \in handlers["previoustrack"], l \in Late :
       \E n \in {h.index - 1, h.index} :
         /\ 0 <= n /\ n <= Len(h.cfg.lines) - 1
         /\ Dispatchable([index |-> n, cfg |-> h.cfg])
         /\ SkipsTo(previoustrackHandler(Cur(l), h.index, h.cfg), n, h.cfg)

\* the OS has skipped while the only loaded line of book B was bound: the
\* scheduled play is for that same line
C22_Witness ==
  /\ last \in {"resume", "resumeAgain"} /\ isRestarting
  /\ \E h \in handlers["nexttrack"] :
       /\ h.cfg.bookId = "B" /\ h.index = Len(h.cfg.lines) - 1
       /\ \E t \in timers : t.id = timer /\ t.index = h.index /\ t.cfg = h.cfg

\* ----------------------------------------------------- useDebounceCallback
\* The hook is followed on a clock that advances by half the delay: a timeout
\* that is due runs before the clock advances and before run or flush is
\* called again, while a render may be committed so shortly before a timeout
\* is due that its passive effect has not run yet when the timeout fires.
\* The callback passed to the hook is replaced once, callback1 by callback2.
DEBOUNCE_DELAY == 2000     \* ms, the default of the delay parameter
MaxRuns == 3               \* run(...) calls followed
MaxClock == 5              \* clock steps followed

DebStep == DEBOUNCE_DELAY \div 2
\* the k-th run call is made with arguments of its own: run(1), run(2), ...
ArgsOfRun(k) == <<k>>

\* the hook state h: now (clock), callback (the one passed to the last
\* render), effect (the passive effect of that render is still to run),
\* timeoutRef (0 = null), argsRef ({} = null), callbackRef, timeouts (live
\* setTimeout entries), and as history runs (the run calls) and calls (the
\* invocations of callbackRef.current)
DebMount(cb) ==
  [mounted |-> TRUE, now |-> 0, callback |-> cb, effect |-> FALSE,
   timeoutRef |-> 0, argsRef |-> {}, callbackRef |-> cb, timeouts |-> {},
   runs |-> <<>>, calls |-> <<>>]

debClearTimeout(h, id) == [h EXCEPT !.timeouts = { t \in @ : t.id # id }]

\* callbackRef.current(...args); k is the run call the arguments came from
debInvoke(h, args, via, k) ==
  [h EXCEPT !.calls = Append(@, [cb |-> h.callbackRef, args |-> args, at |-> h.now,
                                 via |-> via, run |-> k, passed |-> h.callback])]

\* the effect that follows a render with a new callback
callbackEffect(h) == [h EXCEPT !.callbackRef = h.callback, !.effect = FALSE]

\* mutant: flush invokes the callback and leaves the timeout running
flush_keepsTimeout(h) ==
  IF h.timeoutRef # 0
  THEN LET h1 == [h EXCEPT !.timeoutRef = 0]
       IN  IF h1.argsRef # {}
           THEN [debInvoke(h1, CHOOSE a \in h1.argsRef : TRUE, "flush", Len(h1.runs))
                   EXCEPT !.argsRef = {}]
           ELSE h1
  ELSE h

flush(h) ==
  IF h.timeoutRef # 0
  THEN LET h1 == [debClearTimeout(h, h.timeoutRef) EXCEPT !.timeoutRef = 0]
       IN  IF h1.argsRef # {}
           THEN [debInvoke(h1, CHOOSE a \in h1.argsRef : TRUE, "flush", Len(h1.runs))
                   EXCEPT !.argsRef = {}]
           ELSE h1
  ELSE h

NewTimeoutId(h) == CHOOSE n \in 1..(Cardinality(h.timeouts) + 1) :
                     \A t \in h.timeouts : t.id # n

\* mutant: a run does not cancel the timeout of the run before it
debouncedFn_noClear(h, args, delay) ==
  LET h1 == [h EXCEPT !.argsRef = {args}]
      id == NewTimeoutId(h1)
  IN  [h1 EXCEPT !.timeoutRef = id,
                 !.timeouts = @ \cup {[id |-> id, args |-> args, due |-> h.now + delay,
                                       run |-> Len(h.runs) + 1]},
                 !.runs = Append(@, [at |-> h.now, args |-> args])]

debouncedFn(h, args, delay) ==
  LET h1 == [h EXCEPT !.argsRef = {args}]
      h2 == IF h1.timeoutRef # 0 THEN debClearTimeout(h1, h1.timeoutRef) ELSE h1
      id == NewTimeoutId(h2)
  IN  [h2 EXCEPT !.timeoutRef = id,
                 !.timeouts = @ \cup {[id |-> id, args |-> args, due |-> h.now + delay,
                                       run |-> Len(h.runs) + 1]},
                 !.runs = Append(@, [at |-> h.now, args |-> args])]

\* the setTimeout callback of debouncedFn
timeoutCallback(h, t) ==
  debInvoke([h EXCEPT !.timeouts = @ \ {t}, !.timeoutRef = 0, !.argsRef = {}],
            t.args, "timer", t.run)

Due(h) == { t \in h.timeouts : t.due <= h.now }

DebInit == InitState /\ run = NoRun /\ hook = DebMount("callback1")

DebRender ==
  /\ ~hook.effect /\ hook.callback = "callback1"
  /\ hook' = [hook EXCEPT !.callback = "callback2", !.effect = TRUE]
  /\ UNCHANGED engineVars

DebEffect ==
  /\ hook.effect
  /\ hook' = callbackEffect(hook)
  /\ UNCHANGED engineVars

DebRun ==
  /\ Due(hook) = {} /\ Len(hook.runs) < MaxRuns
  /\ hook' = debouncedFn(hook, ArgsOfRun(Len(hook.runs) + 1), DEBOUNCE_DELAY)
  /\ UNCHANGED engineVars

DebFlush ==
  /\ Due(hook) = {}
  /\ hook' = flush(hook)
  /\ UNCHANGED engineVars

DebTimeout ==
  /\ \E t \in Due(hook) : hook' = timeoutCallback(hook, t)
  /\ UNCHANGED engineVars

DebTick ==
  /\ Due(hook) = {} /\ ~hook.effect /\ hook.now < MaxClock * DebStep
  /\ hook' = [hook EXCEPT !.now = @ + DebStep]
  /\ UNCHANGED engineVars

DebNext == DebRender \/ DebEffect \/ DebRun \/ DebFlush \/ DebTimeout \/ DebTick

DebSpec == DebInit /\ [][DebNext]_vars

\* the invocations that delivered the arguments of run call i
CallsOf(h, i, via) ==
  { p \in 1..Len(h.calls) : h.calls[p].run = i /\ h.calls[p].via = via }

\* run call i was the last of its burst: no run call came less than the delay
\* after it
LastOfBurst(h, i) ==
  i = Len(h.runs) \/ h.runs[i + 1].at >= h.runs[i].at + DEBOUNCE_DELAY

\* C23: of run calls each made less than the delay after the one before, only
\* the last one reaches the callback: it is invoked once, with the arguments
\* of that run, exactly the delay after it and not before (a run that flush
\* delivered aside).
C23_DebounceOnce ==
  \A i \in 1..Len(hook.runs) :
    LET mine == CallsOf(hook, i, "timer")
    IN  /\ ~LastOfBurst(hook, i) => mine = {}
        /\ Cardinality(mine) <= 1
        /\ \A p \in mine : /\ hook.calls[p].at = hook.runs[i].at + DEBOUNCE_DELAY
                           /\ hook.calls[p].args = hook.runs[i].args
        /\ /\ LastOfBurst(hook, i) /\ CallsOf(hook, i, "flush") = {}
           /\ hook.now > hook.runs[i].at + DEBOUNCE_DELAY
           => Cardinality(mine) = 1

\* three run calls half a delay apart with different arguments, and the delay
\* has passed since the last: the callback ran once, with the last arguments
C23_Witness ==
  /\ Len(hook.runs) = 3
  /\ hook.runs[2].at = hook.runs[1].at + DebStep
  /\ hook.runs[3].at = hook.runs[2].at + DebStep
  /\ hook.runs[3].args # hook.runs[2].args
  /\ hook.now > hook.runs[3].at + DEBOUNCE_DELAY
  /\ Len(hook.calls) = 1 /\ hook.calls[1].args = hook.runs[3].args

\* a run is pending: its timeout has neither fired nor been cancelled
Pending(h) == h.timeouts # {}

\* C24: flush while a run is pending invokes the callback at once, once, with
\* the arguments of the latest run, and leaves no timeout behind, so that no
\* run is ever delivered twice; flush with nothing pending (never run, already
\* fired, already flushed) invokes nothing.
C24_FlushOnce ==
  /\ LET r == flush(hook)
     IN  IF Pending(hook)
         THEN /\ Len(r.calls) = Len(hook.calls) + 1
              /\ r.calls[Len(r.calls)].args = hook.runs[Len(hook.runs)].args
              /\ r.calls[Len(r.calls)].at = hook.now
              /\ SubSeq(r.calls, 1, Len(hook.calls)) = hook.calls
              /\ ~Pending(r)
              /\ flush(r) = r
         ELSE r = hook
  /\ \A i \in 1..Len(hook.runs) :
       Cardinality(CallsOf(hook, i, "timer") \cup CallsOf(hook, i, "flush")) <= 1
  /\ hook.runs = <<>> => hook.calls = <<>>

\* a pending run was flushed and its original delay has since elapsed: the
\* callback has run once
C24_Witness ==
  /\ Len(hook.runs) = 1 /\ Len(hook.calls) = 1
  /\ hook.calls[1].via = "flush" /\ hook.calls[1].at < hook.runs[1].at + DEBOUNCE_DELAY
  /\ hook.now > hook.runs[1].at + DEBOUNCE_DELAY

\* C25 (as claimed): replacing the callback passed to the hook does not touch
\* the pending timeout, and every invocation, by the timeout or by flush, goes
\* to the callback passed most recently, never to one it replaced.
C25_NewestCallbackOnly ==
  /\ hook.effect => callbackEffect(hook).timeouts = hook.timeouts
  /\ \A p \in 1..Len(hook.calls) : hook.calls[p].cb = hook.calls[p].passed

\* ------------------------------------------------------------ useUpdateBook
\* The hook is followed while it is mounted, on a clock that advances by half
\* of FIVE_MINUTES; an api request settles before the clock advances.
\* Two copies of the hook exist: packages/web (the update effect also depends
\* on updatedBook; every page event flushes) and packages/client (the update
\* effect depends on canUpdate only; visibilitychange and pagehide flush when
\* the document is hidden, beforeunload is not listened to).
FIVE_MINUTES == 300000     \* ms
MaxVersion == 2            \* values of updatedBook followed: 1 .. MaxVersion

UpdStep == FIVE_MINUTES \div 2
Variants == {"web", "client"}
PageEvents == {"visibilitychange", "beforeunload", "pagehide"}
NoBook == 0                \* the caller's book state is undefined
Loaded == MaxVersion + 1   \* the book as loaded, before any merge

NoSent == [id |-> ""]

\* the handleBookUpdate closure of a render
Closure(u) == [updatedBook |-> u]

\* the hook state: that of useDebounceCallback, and variant, id ("" =
\* undefined), updatedBook and canUpdate (props of the last render), seen (the
\* dependencies the update effect last ran with), listening (the page
\* listeners are bound), visibility (document.visibilityState), inflight (api
\* requests not settled), book (the caller's book state), and as history sent
\* (for each api.books.update call, the run call that scheduled it), lastSent
\* (the last of these calls) and ever (canUpdate was true in some render)
UpdMount(v, id, c, b) ==
  [mounted |-> TRUE, now |-> 0, callback |-> Closure(1), effect |-> TRUE,
   timeoutRef |-> 0, argsRef |-> {}, callbackRef |-> Closure(1), timeouts |-> {},
   runs |-> <<>>, calls |-> <<>>,
   variant |-> v, id |-> id, updatedBook |-> 1, canUpdate |-> c, seen |-> <<>>,
   listening |-> FALSE, visibility |-> "visible", inflight |-> {}, book |-> b,
   sent |-> <<>>, lastSent |-> NoSent, ever |-> c]

\* handleBookUpdate up to its await; lastSent keeps, with the arguments of
\* api.books.update, the updatedBook of the last render, the time since the
\* run call k that scheduled the update, and how the update was invoked
handleBookUpdate(h, cb, k, via) ==
  IF h.id = "" THEN h
  ELSE [h EXCEPT !.inflight = @ \cup {[n |-> Len(h.sent) + 1, payload |-> cb.updatedBook]},
                 !.sent = Append(@, k),
                 !.lastSent = [id |-> h.id, payload |-> cb.updatedBook,
                               newest |-> h.updatedBook,
                               after |-> h.now - h.runs[k].at, via |-> via]]

\* handleBookUpdate after its await: the request succeeded or failed
handleBookUpdateSettled(h, r, ok) ==
  LET h1 == [h EXCEPT !.inflight = @ \ {r}]
  IN  IF ok
      THEN [h1 EXCEPT !.book = IF @ # NoBook /\ h.mounted THEN r.payload ELSE @]
      ELSE h1

\* what the hook does with a step of useDebounceCallback: the callback it
\* invoked, if any, is a handleBookUpdate closure
Invoked(h, r) ==
  IF Len(r.calls) > Len(h.calls)
  THEN LET c == r.calls[Len(r.calls)]
       IN  [handleBookUpdate(r, c.cb, c.run, c.via) EXCEPT !.calls = h.calls]
  ELSE r

\* mutant: the update effect schedules the update whatever canUpdate is
updateEffect_always(h) == debouncedFn(h, <<>>, FIVE_MINUTES)

\* the effect of lines 19-23
updateEffect(h) == IF h.canUpdate THEN debouncedFn(h, <<>>, FIVE_MINUTES) ELSE h

Deps(h) == IF h.variant = "web" THEN <<h.canUpdate, h.updatedBook>> ELSE <<h.canUpdate>>

\* the passive effects of a render, in the order the hooks declare them
passiveEffects(h) ==
  LET h1 == callbackEffect(h)
      h2 == IF h1.seen # Deps(h1) THEN updateEffect(h1) ELSE h1
  IN  [h2 EXCEPT !.seen = Deps(h1), !.listening = TRUE]

\* handlePageExit (web) and handlePageVisibility (client) as bound to event e
pageListener(h, e) ==
  IF ~h.listening THEN h
  ELSE IF h.variant = "web" THEN Invoked(h, flush(h))
  ELSE IF e \in {"visibilitychange", "pagehide"} /\ h.visibility = "hidden"
  THEN Invoked(h, flush(h))
  ELSE h

\* the document changes visibility and tells its listeners
visibilityChanged(h) ==
  pageListener([h EXCEPT !.visibility = IF @ = "visible" THEN "hidden" ELSE "visible"],
               "visibilitychange")

\* the cleanup of the page-exit effect, at unmount
pageExitCleanup(h) ==
  [Invoked(h, flush(h)) EXCEPT !.listening = FALSE, !.mounted = FALSE]

\* either copy of the hook mounted for a loaded book, with canUpdate true or
\* false; the web copy also without an id and with the book not loaded yet
UpdMounts ==
  { UpdMount(v, "book-123", c, Loaded) : v \in Variants, c \in BOOLEAN }
  \cup { UpdMount("web", "", TRUE, Loaded), UpdMount("web", "book-123", TRUE, NoBook) }

UpdInit == InitState /\ run = NoRun /\ hook \in UpdMounts

\* history: when a run call was made is kept only while its timeout is live
Step(h, name) ==
  [h EXCEPT !.runs = [k \in 1..Len(@) |->
                        IF \E t \in h.timeouts : t.run = k THEN @[k]
                        ELSE [at |-> 0, args |-> <<>>]]]

UpdRender ==
  /\ hook.mounted /\ ~hook.effect /\ Len(hook.runs) < MaxRuns
  /\ \E u \in {hook.updatedBook, hook.updatedBook + 1} \cap (1..MaxVersion), c \in BOOLEAN :
       hook' = Step([hook EXCEPT !.updatedBook = u, !.canUpdate = c, !.callback = Closure(u),
                                 !.effect = TRUE, !.ever = @ \/ c], "render")
  /\ UNCHANGED engineVars

UpdEffects ==
  /\ hook.mounted /\ hook.effect
  /\ hook' = Step(passiveEffects(hook), "effects")
  /\ UNCHANGED engineVars

UpdFlush ==
  /\ hook.mounted /\ Due(hook) = {}
  /\ hook' = Step(Invoked(hook, flush(hook)), "flushUpdate")
  /\ UNCHANGED engineVars

UpdVisibility ==
  /\ hook.mounted /\ Due(hook) = {}
  /\ hook' = Step(visibilityChanged(hook), "visibilitychange")
  /\ UNCHANGED engineVars

UpdPageEvent ==
  /\ hook.mounted /\ Due(hook) = {}
  /\ \E e \in {"beforeunload", "pagehide"} : hook' = Step(pageListener(hook, e), e)
  /\ UNCHANGED engineVars

UpdUnmount ==
  /\ hook.mounted /\ ~hook.effect /\ Due(hook) = {}
  /\ hook' = Step(pageExitCleanup(hook), "unmount")
  /\ UNCHANGED engineVars

UpdTimeout ==
  /\ \E t \in Due(hook) : hook' = Step(Invoked(hook, timeoutCallback(hook, t)), "timeout")
  /\ UNCHANGED engineVars

UpdSettle ==
  /\ \E r \in hook.inflight, ok \in BOOLEAN :
       hook' = Step(handleBookUpdateSettled(hook, r, ok), IF ok THEN "resolved" ELSE "rejected")
  /\ UNCHANGED engineVars

UpdTick ==
  /\ hook.mounted /\ Due(hook) = {} /\ ~hook.effect /\ hook.inflight = {}
  /\ hook.now < MaxClock * UpdStep
  /\ hook' = Step([hook EXCEPT !.now = @ + UpdStep], "tick")
  /\ UNCHANGED engineVars

UpdNext ==
  \/ UpdRender \/ UpdEffects \/ UpdFlush \/ UpdVisibility \/ UpdPageEvent
  \/ UpdUnmount \/ UpdTimeout \/ UpdSettle \/ UpdTick

UpdSpec == UpdInit /\ [][UpdNext]_vars

\* C26: as long as canUpdate has been false in every render, api.books.update
\* has not been called and nothing is scheduled, so that neither the passing
\* of FIVE_MINUTES nor flushUpdate, a page event or unmount sends anything.
C26_NoUpdateUnlessAllowed ==
  ~hook.ever =>
    /\ hook.sent = <<>> /\ hook.inflight = {} /\ ~Pending(hook)
    /\ Invoked(hook, flush(hook)).sent = <<>>
    /\ \A e \in PageEvents : pageListener(hook, e).sent = <<>>
    /\ visibilityChanged(hook).sent = <<>>
    /\ pageExitCleanup(hook).sent = <<>>
    /\ hook.effect => passiveEffects(hook).timeouts = {}

\* the hook was unmounted after FIVE_MINUTES and more, with canUpdate false
\* throughout and an id to update: nothing was sent
C26_Witness ==
  /\ ~hook.mounted /\ ~hook.ever /\ hook.id # ""
  /\ hook.now > FIVE_MINUTES /\ hook.sent = <<>>

\* step r sent the pending update of h, and left nothing to send again
SentNow(h, r) ==
  /\ Len(r.sent) = Len(h.sent) + 1
  /\ ~Pending(r)
  /\ Invoked(r, flush(r)).sent = r.sent

\* C27 (as claimed): while an update is pending, flushUpdate(), each of the
\* beforeunload, pagehide and visibilitychange events, and unmount send it at
\* once; and no scheduled update is sent twice.
C27_PendingSentOnExit ==
  /\ hook.mounted /\ hook.listening /\ Pending(hook) /\ Due(hook) = {} /\ hook.id # "" =>
       /\ SentNow(hook, Invoked(hook, flush(hook)))
       /\ SentNow(hook, pageListener(hook, "beforeunload"))
       /\ SentNow(hook, pageListener(hook, "pagehide"))
       /\ SentNow(hook, visibilityChanged(hook))
       /\ SentNow(hook, pageExitCleanup(hook))
  /\ \A p, q \in 1..Len(hook.sent) : hook.sent[p] = hook.sent[q] => p = q

\* C28 (as claimed), for the packages/web copy with canUpdate true: the
\* effects that follow a change schedule one update FIVE_MINUTES ahead and
\* leave no other; an update the timer sends goes out FIVE_MINUTES after it
\* was scheduled, once, as api.books.update(id, updatedBook) with the
\* updatedBook of the most recent render; and the caller's book is merged with
\* the payload when the request succeeds, and left alone until then and when
\* it fails.
C28_UpdateAfterQuietPeriod ==
  hook.variant = "web" =>
    /\ hook.effect /\ hook.canUpdate /\ hook.seen # Deps(hook) =>
         LET r == passiveEffects(hook)
         IN  \E t \in r.timeouts : r.timeouts = {t} /\ t.due = hook.now + FIVE_MINUTES
    /\ \A t \in hook.timeouts : t.due >= hook.now
    /\ \A p, q \in 1..Len(hook.sent) : hook.sent[p] = hook.sent[q] => p = q
    /\ hook.lastSent # NoSent /\ hook.lastSent.via = "timer" =>
         /\ hook.lastSent.after = FIVE_MINUTES
         /\ hook.lastSent.id = hook.id
         /\ hook.lastSent.payload = hook.lastSent.newest
    /\ \A t \in Due(hook) : Invoked(hook, timeoutCallback(hook, t)).book = hook.book
    /\ \A r \in hook.inflight :
         /\ handleBookUpdateSettled(hook, r, FALSE).book = hook.book
         /\ handleBookUpdateSettled(hook, r, TRUE).book =
              IF hook.book # NoBook /\ hook.mounted THEN r.payload ELSE hook.book

\* every dispatch of step r hands an adapter line `index` of cfg, and that
\* line is loaded and in range under a config with a bookId
HandsOnly(r, index, cfg) ==
  \A p \in Dispatches(r) :
    r.log[p].v = index /\ Dispatchable([index |-> index, cfg |-> cfg])

\* C29: every line an adapter holds or is handed satisfies
\* 0 <= index < lines.length and index < totalLines under its config, with a
\* bookId, whether the play comes from start, from the advance at the end of a
\* line, from the debounced resume or from an OS transport event.
C29_OnlyLoadedLines ==
  /\ \A p \in 1..Len(queue) : Dispatchable(queue[p])
  /\ \A u \in stale :
       u.started =>
         /\ Dispatchable(u)
         /\ HandsOnly(utteranceOnEnd([Cur(FALSE) EXCEPT !.stale = @ \ {u}], u.index, u.cfg),
                      u.index + 1, u.cfg)
  /\ \A h \in cloud.onended : Dispatchable(h)
  /\ \A a \in Inputs, l \in Late : HandsOnly(start(Cur(l), a.index, a.cfg), a.index, a.cfg)
  /\ \A t \in timers, l \in Late :
       HandsOnly(resumeCallback([Cur(l) EXCEPT !.timers = @ \ {t}], t.index, t.cfg),
                 t.index, t.cfg)
  /\ queue # <<>> =>
       LET u == Head(queue)
       IN  HandsOnly(utteranceOnEnd([Cur(FALSE) EXCEPT !.queue = Tail(queue)], u.index, u.cfg),
                     u.index + 1, u.cfg)
  /\ \A h \in cloud.onended :
       HandsOnly(onEndHandler([Cur(FALSE) EXCEPT !.cloud.playing = FALSE], h.index, h.cfg),
                 h.index + 1, h.cfg)
  /\ \A h \in handlers["play"], l \in Late :
       HandsOnly(start(Cur(l), h.index, h.cfg), h.index, h.cfg)
  /\ \A h \in handlers["nexttrack"], l \in Late :
       /\ Dispatches(nexttrackHandler(Cur(l), h.index, h.cfg)) = {}
       /\ Dispatches(previoustrackHandler(Cur(l), h.index, h.cfg)) = {}

\* the advance at the end of a spoken line has handed the on-device adapter
\* the last line of the book
C29_Witness ==
  /\ last = "ended" /\ TtsActive /\ stale = {}
  /\ Head(queue).index = Head(queue).cfg.totalLines - 1

\* C30 (as claimed): whenever neither adapter is active and no debounced
\* resume is pending, the silent keep-alive cue is not playing and the OS
\* playback state is not "playing".
C30_QuietWhenIdle ==
  ~TtsActive /\ ~CloudActive /\ timers = {} =>
    ~silentPlaying /\ playbackState # "playing"

\* the four OS action handlers as a dispatch of line `index` of cfg binds them
HandlersFor(index, cfg) == [a \in MediaActions |-> {[index |-> index, cfg |-> cfg]}]

\* step r has rebound the handlers to (index, cfg) if it handed a line to an
\* adapter, and has left them as they were if it did not
Rebinds(r, index, cfg) ==
  r.handlers = IF Dispatches(r) # {} THEN HandlersFor(index, cfg) ELSE handlers

\* C34: the four OS action handlers are bound together or not at all, and
\* when bound they carry the index and config of the most recently dispatched
\* line (the one the position state and the active adapter hold); every
\* dispatch rebinds them, pause, resume, the transport skips and the error
\* handlers leave them unchanged, and stop unbinds them.
C34_HandlersFollowDispatch ==
  /\ handlers = NoHandlers
       \/ \E h \in handlers["play"] :
            /\ handlers = HandlersFor(h.index, h.cfg)
            /\ Dispatchable(h)
            /\ positionState = {PositionFor(h.index, h.cfg)}
            /\ \A p \in 1..Len(queue) : queue[p].index = h.index /\ queue[p].cfg = h.cfg
            /\ \A c \in cloud.onended : c.index = h.index /\ c.cfg = h.cfg
  /\ \A a \in Inputs, l \in Late :
       /\ Rebinds(start(Cur(l), a.index, a.cfg), a.index, a.cfg)
       /\ resume(Cur(l), a.index, a.cfg).handlers = handlers
  /\ \A t \in timers, l \in Late :
       Rebinds(resumeCallback([Cur(l) EXCEPT !.timers = @ \ {t}], t.index, t.cfg),
               t.index, t.cfg)
  /\ queue # <<>> =>
       LET u == Head(queue)
           s == [Cur(FALSE) EXCEPT !.queue = Tail(queue)]
       IN  /\ Rebinds(utteranceOnEnd(s, u.index, u.cfg), u.index + 1, u.cfg)
           /\ utteranceOnError(s).handlers = handlers
  /\ \A u \in stale :
       u.started =>
         Rebinds(utteranceOnEnd([Cur(FALSE) EXCEPT !.stale = @ \ {u}], u.index, u.cfg),
                 u.index + 1, u.cfg)
  /\ \A c \in cloud.onended :
       Rebinds(onEndHandler([Cur(FALSE) EXCEPT !.cloud.playing = FALSE], c.index, c.cfg),
               c.index + 1, c.cfg)
  /\ cloudOnError(Cur(FALSE)).handlers = handlers
  /\ \A h \in handlers["play"], l \in Late :
       Rebinds(start(Cur(l), h.index, h.cfg), h.index, h.cfg)
  /\ \A h \in handlers["nexttrack"], l \in Late :
       nexttrackHandler(Cur(l), h.index, h.cfg).handlers = handlers
  /\ \A h \in handlers["previoustrack"], l \in Late :
       previoustrackHandler(Cur(l), h.index, h.cfg).handlers = handlers
  /\ \A l \in Late :
       /\ pause(Cur(l)).handlers = handlers
       /\ stop(Cur(l)).handlers = NoHandlers

\* a resume for another line is pending while the handlers are still bound to
\* the line dispatched last
C34_Witness ==
  /\ last \in {"resume", "resumeAgain"} /\ isRestarting
  /\ \E h \in handlers["play"], t \in timers :
       /\ handlers = HandlersFor(h.index, h.cfg)
       /\ t.id = timer /\ t.index # h.index
       /\ positionState = {PositionFor(h.index, h.cfg)}

\* ------------------------------------------------- BookReader: bookmarks
BOOKMARK_TEXT_LIMIT == 20
MaxMarked == 5       \* lines of the book that can be bookmarked

MarkLines == 0 .. (MaxMarked - 1)

\* the text of line k as the list renders it: BOOKMARK_TEXT_LIMIT - 2 + k
\* characters, so that the lines run from under the limit to over it
LineText(k) == [i \in 1..(BOOKMARK_TEXT_LIMIT - 2 + k) |-> IF i % 2 = 1 THEN "a" ELSE "b"]

Ellipsis == <<".", ".", ".">>

\* text.length > BOOKMARK_TEXT_LIMIT ? text.slice(0, BOOKMARK_TEXT_LIMIT) + '...' : text
truncatedText(text) ==
  IF Len(text) > BOOKMARK_TEXT_LIMIT THEN SubSeq(text, 1, BOOKMARK_TEXT_LIMIT) \o Ellipsis
  ELSE text

\* Array.prototype.sort((a, b) => a.index - b.index): a stable sort, computed
\* by inserting each element after the elements that do not compare greater
RECURSIVE sortByIndex(_)
sortByIndex(seq) ==
  IF seq = <<>> THEN <<>>
  ELSE LET done == sortByIndex(SubSeq(seq, 1, Len(seq) - 1))
           b    == seq[Len(seq)]
           keep == Cardinality({ p \in 1..Len(done) : done[p].index - b.index <= 0 })
       IN  SubSeq(done, 1, keep) \o <<b>> \o SubSeq(done, keep + 1, Len(done))

\* mutant: the new bookmark is appended and the list is not sorted
toggleBookmark_unsorted(prev, index, text) ==
  IF \E p \in 1..Len(prev) : prev[p].index = index
  THEN SelectSeq(prev, LAMBDA b : b.index # index)
  ELSE Append(prev, [index |-> index, text |-> truncatedText(text)])

\* the updater toggleBookmark hands to setBookmarks, applied to prev
toggleBookmark(prev, index, text) ==
  IF \E p \in 1..Len(prev) : prev[p].index = index
  THEN SelectSeq(prev, LAMBDA b : b.index # index)
  ELSE sortByIndex(Append(prev, [index |-> index, text |-> truncatedText(text)]))

\* the bookmark lists a stored book can carry: made by earlier toggles of its
\* lines, one list per set of lines
RECURSIVE StoredBookmarks(_, _)
StoredBookmarks(marked, k) ==
  IF k = MaxMarked THEN <<>>
  ELSE (IF k \in marked THEN <<[index |-> k, text |-> truncatedText(LineText(k))]>> ELSE <<>>)
       \o StoredBookmarks(marked, k + 1)

\* loadBook: setBookmarks(book.bookmarks || [])
BmInit ==
  /\ InitState /\ run = NoRun
  /\ \E marked \in SUBSET MarkLines :
       hook = [mounted |-> TRUE, bookmarks |-> StoredBookmarks(marked, 0), toggled |-> -1]

\* the context menu or the bookmark button of a rendered line
BmToggle ==
  /\ hook.mounted
  /\ \E k \in MarkLines :
       hook' = [hook EXCEPT !.bookmarks = toggleBookmark(@, k, LineText(k)), !.toggled = k]
  /\ UNCHANGED engineVars

\* the "remove all bookmarks" control: setBookmarks([])
BmClear ==
  /\ hook.mounted /\ hook.bookmarks # <<>>
  /\ hook' = [hook EXCEPT !.bookmarks = <<>>, !.toggled = -1]
  /\ UNCHANGED engineVars

BmNext == BmToggle \/ BmClear

BmSpec == BmInit /\ [][BmNext]_vars

IndicesOf(bm) == { bm[p].index : p \in 1..Len(bm) }

\* C37: the bookmark list is sorted by index with at most one bookmark per
\* index; toggleBookmark(index, text) on a line without a bookmark adds one
\* for it and keeps every other bookmark, on a line with a bookmark removes
\* that one and keeps every other, and applied twice to the same line gives
\* back the list it started from.
C37_ToggleBookmark ==
  LET bm == hook.bookmarks
  IN  /\ \A p, q \in 1..Len(bm) : p < q => bm[p].index < bm[q].index
      /\ \A k \in MarkLines :
           LET r == toggleBookmark(bm, k, LineText(k))
           IN  /\ \A p, q \in 1..Len(r) : p < q => r[p].index < r[q].index
               /\ IndicesOf(r) = IF k \in IndicesOf(bm) THEN IndicesOf(bm) \ {k}
                                 ELSE IndicesOf(bm) \cup {k}
               /\ \A p \in 1..Len(bm) :
                    bm[p].index # k => \E q \in 1..Len(r) : r[q] = bm[p]
               /\ \A q \in 1..Len(r) :
                    r[q].index = k => r[q].text = truncatedText(LineText(k))
               /\ toggleBookmark(r, k, LineText(k)) = bm

\* a line longer than the limit has just been bookmarked between two
\* bookmarked lines: its bookmark sits between theirs, with the text cut
C37_Witness ==
  /\ hook.mounted /\ hook.toggled = 3
  /\ Len(hook.bookmarks) = 3
  /\ hook.bookmarks[1].index = 0 /\ hook.bookmarks[3].index = 4
  /\ hook.bookmarks[2] = [index |-> 3, text |-> SubSeq(LineText(3), 1, 20) \o Ellipsis]

\* ---------------------------------------------------- BookReader: content
\* The reader is followed from its mount: React state as the last render saw
\* it (view: what the handlers and the bound engine callbacks close over) and
\* with the updates made since (st), the refs, the content requests in flight
\* and the engine it drives. The content service is the pagination source of
\* the engine's interface: (bookId, offset, limit) gives the lines from offset
\* on, at most limit of them, with {total, hasMore}.
PAGE_SIZE == 1       \* lines of a page (the value is not in the reader's file)
BookTotal == 3       \* lines of the book being read
MaxLoaded == 4       \* longest lines array the reader is followed to

ReaderBook == "A"
Voices == {SysVoice, CloudVoice}

BookLines(from, to) == [k \in 1..(to - from) |-> TextOf(ReaderBook, from + k - 1)]

\* api.books.getContent(id, offset, limit)
getContent(offset, limit) ==
  LET to == Min(offset + limit, BookTotal)
  IN  [lines |-> IF offset < to THEN BookLines(offset, to) ELSE <<>>,
       total |-> BookTotal,
       hasMore |-> offset + limit < BookTotal]

NoLines == <<>>

\* useState initial values
ReaderState ==
  [lines |-> NoLines, hasMore |-> TRUE, totalLines |-> 0, loadingMore |-> FALSE,
   isPlaying |-> FALSE, currentLine |-> 0, loading |-> TRUE]

\* speechConfigs() as a render's closure builds it
speechConfigs(h, v) ==
  [bookId |-> ReaderBook, totalLines |-> v.totalLines, lines |-> v.lines,
   selectedVoice |-> h.voice, rate |-> RateOf(ReaderBook)]

\* the setState calls of loadBookContent once its content has arrived
loadBookContent(h, offset, content) ==
  [h EXCEPT !.st.lines = IF offset = 0 THEN content.lines ELSE @ \o content.lines,
            !.st.totalLines = content.total,
            !.st.hasMore = content.hasMore,
            !.fresh = TRUE]

\* a content request as the reader issues it; n tells apart requests that are
\* in flight together
Fetch(h, offset, limit, via, by) ==
  [offset |-> offset, limit |-> limit, via |-> via, by |-> by, n |-> Cardinality(h.inflight)]

\* mutant: loadMoreLines without the isFetchingRef guard
loadMoreLines_noRef(h, offset, limit, by) ==
  IF ~h.view.hasMore \/ h.view.loadingMore
  THEN [h EXCEPT !.asked = IF h.isFetching THEN "refused" ELSE "dropped"]
  ELSE [h EXCEPT !.isFetching = TRUE,
                 !.st.loadingMore = TRUE,
                 !.inflight = @ \cup {Fetch(h, offset, limit, "loadMoreLines", by)},
                 !.asked = "issued"]

\* loadMoreLines up to its await: hasMore and loadingMore are those of the
\* render whose closure is called, isFetchingRef is read as it is now; asked
\* keeps what became of the last request (history)
loadMoreLines(h, offset, limit, by) ==
  IF ~h.view.hasMore \/ h.view.loadingMore \/ h.isFetching
  THEN [h EXCEPT !.asked = IF h.isFetching THEN "refused" ELSE "dropped"]
  ELSE [h EXCEPT !.isFetching = TRUE,
                 !.st.loadingMore = TRUE,
                 !.inflight = @ \cup {Fetch(h, offset, limit, "loadMoreLines", by)},
                 !.asked = "issued"]

\* loadMoreLines from its await on: loadBookContent, then the finally block
loadMoreLinesSettled(h, f) ==
  LET h1 == loadBookContent([h EXCEPT !.inflight = @ \ {f}], f.offset,
                            getContent(f.offset, f.limit))
  IN  [h1 EXCEPT !.st.loadingMore = FALSE, !.isFetching = FALSE]

\* loadBook from getById on: the book's reading position, then its content
loadBook(h, currentLine) ==
  [h EXCEPT !.st.currentLine = currentLine,
            !.phase = "content",
            !.inflight = @ \cup {Fetch(h, 0, currentLine + PAGE_SIZE, "loadBook", "mount")}]

loadBookSettled(h, f) ==
  LET h1 == loadBookContent([h EXCEPT !.inflight = @ \ {f}], f.offset,
                            getContent(f.offset, f.limit))
  IN  [h1 EXCEPT !.st.loading = FALSE, !.phase = "ready"]

\* the callbacks the reader binds on the engine, applied to what a step of
\* the engine emitted, in order
RECURSIVE Deliver(_, _)
Deliver(h, log) ==
  IF log = <<>> THEN h
  ELSE LET e == Head(log)
           h1 == IF e.k # "emit" THEN h
                 ELSE IF e.name = "lineEnd" THEN [h EXCEPT !.st.currentLine = e.v]
                 ELSE IF e.name = "isPlaying" THEN [h EXCEPT !.st.isPlaying = (e.v = 1)]
                 ELSE IF e.name = "loadMoreLines"
                 THEN loadMoreLines([h EXCEPT !.shouldResume = TRUE], e.v, PAGE_SIZE, "engine")
                 ELSE h
       IN  Deliver(h1, Tail(log))

\* a step of the engine made by or under the reader: the engine's state is
\* committed and the reader's callbacks receive what the step emitted
ReaderStep(h, r) ==
  /\ CommitEngine(r, last, quiet)
  /\ run' = run
  /\ hook' = Deliver(h, r.log)

\* the resume effect of a render: it runs when one of its dependencies
\* (currentLine, lines, speechConfigs, isPlaying) is new
resumeEffectRuns(h) ==
  \/ h.fresh
  \/ h.st.currentLine # h.view.currentLine
  \/ h.st.isPlaying # h.view.isPlaying
  \/ h.st.totalLines # h.view.totalLines

HasLine(v) == 0 <= v.currentLine /\ v.currentLine < Len(v.lines)

\* a render is due: React renders before the browser runs another task, so a
\* key, a timer, an adapter event or a response finds the state rendered; only
\* the list's two end-of-list callbacks and a jump can come in the same task
RenderDue(h) == h.fresh \/ h.st # h.view

BrInit ==
  /\ InitState /\ run = NoRun
  /\ \E v \in Voices :
       hook = [mounted |-> TRUE, voice |-> v, phase |-> "book",
               st |-> ReaderState, view |-> ReaderState, fresh |-> FALSE,
               shouldResume |-> FALSE, isFetching |-> FALSE, inflight |-> {},
               press |-> "none", asked |-> "none"]

\* api.books.getById resolves with the stored reading position
BrBookLoaded ==
  /\ hook.mounted /\ hook.phase = "book" /\ ~RenderDue(hook)
  /\ \E c \in 0..1 : hook' = loadBook(hook, c)
  /\ UNCHANGED engineVars

\* a content request resolves
BrContentLoaded ==
  /\ hook.mounted /\ ~RenderDue(hook)
  /\ \E f \in hook.inflight :
       /\ f.offset # 0 => Len(hook.st.lines) + Len(getContent(f.offset, f.limit).lines) <= MaxLoaded
       /\ hook' = IF f.via = "loadBook" THEN loadBookSettled(hook, f)
                  ELSE loadMoreLinesSettled(hook, f)
  /\ UNCHANGED engineVars

\* React renders with the state as it is now and runs the effects
BrRender ==
  /\ hook.mounted /\ RenderDue(hook)
  /\ LET h == [hook EXCEPT !.view = hook.st, !.fresh = FALSE]
     IN  IF resumeEffectRuns(hook) /\ h.st.isPlaying /\ HasLine(h.st) /\ h.shouldResume
         THEN \E late \in Late :
                ReaderStep([h EXCEPT !.shouldResume = FALSE],
                           resume(Cur(late), h.st.currentLine, speechConfigs(h, h.st)))
         ELSE hook' = h /\ UNCHANGED engineVars

\* handlePlayPause, from the play/pause button or the space key
startFrom(v) == IF v.currentLine >= v.totalLines THEN 0 ELSE v.currentLine

handlePlayPause(h, s) ==
  IF h.view.isPlaying THEN pause(s)
  ELSE start(s, startFrom(h.view), speechConfigs(h, h.view))

\* press keeps what the last press called (history)
BrPlayPause ==
  /\ hook.mounted /\ ~RenderDue(hook)
  /\ \E late \in Late :
       LET h == IF hook.view.isPlaying THEN [hook EXCEPT !.press = "pause"]
                ELSE [hook EXCEPT !.press = "start",
                                  !.st.currentLine = IF startFrom(hook.view) = 0 THEN 0 ELSE @]
       IN  ReaderStep(h, handlePlayPause(hook, Cur(late)))

\* the ArrowDown and ArrowUp keys: moveToLine
moveToLine(h, lineIndex) == [h EXCEPT !.st.currentLine = lineIndex]

BrArrow ==
  /\ hook.mounted /\ ~RenderDue(hook)
  /\ \E lineIndex \in {Min(hook.view.currentLine + 1, hook.view.totalLines - 1),
                       Max(hook.view.currentLine - 1, 0)}, late \in Late :
       /\ lineIndex # hook.view.currentLine
       /\ IF hook.view.isPlaying
          THEN ReaderStep(moveToLine(hook, lineIndex),
                          resume(Cur(late), lineIndex, speechConfigs(hook, hook.view)))
          ELSE hook' = moveToLine(hook, lineIndex) /\ UNCHANGED engineVars

\* the list reports that its end is in view: atBottomStateChange(true)
BrScroll ==
  /\ hook.mounted /\ ~hook.view.loading
  /\ hook.view.hasMore /\ ~hook.view.loadingMore
  /\ hook' = loadMoreLines(hook, Len(hook.view.lines), PAGE_SIZE, "scroll")
  /\ UNCHANGED engineVars

\* jumpToIndex(lineIndex) from a bookmark or a search match, up to its await
BrJump ==
  /\ hook.mounted /\ ~hook.view.loading
  /\ \E lineIndex \in 0..(BookTotal - 1) :
       /\ lineIndex >= Len(hook.view.lines)
       /\ hook' = loadMoreLines(hook, 0, lineIndex, "jump")
  /\ UNCHANGED engineVars

\* the engine's timers and adapters call back
BrTimerFire ==
  /\ hook.mounted /\ ~RenderDue(hook)
  /\ \E t \in timers, late \in Late :
       ReaderStep(hook, resumeCallback([Cur(late) EXCEPT !.timers = @ \ {t}], t.index, t.cfg))

BrUtterStart ==
  /\ hook.mounted /\ ~RenderDue(hook) /\ queue # <<>> /\ ~Head(queue).started
  /\ ReaderStep(hook, utteranceOnStart(
       [Cur(FALSE) EXCEPT !.queue = <<[Head(queue) EXCEPT !.started = TRUE]>> \o Tail(queue)]))

BrUtterEnd ==
  /\ hook.mounted /\ ~RenderDue(hook) /\ queue # <<>> /\ Head(queue).started
  /\ ReaderStep(hook, utteranceOnEnd([Cur(FALSE) EXCEPT !.queue = Tail(queue)],
                                     Head(queue).index, Head(queue).cfg))

BrUtterError ==
  /\ hook.mounted /\ ~RenderDue(hook) /\ queue # <<>>
  /\ ReaderStep(hook, utteranceOnError([Cur(FALSE) EXCEPT !.queue = Tail(queue)]))

BrStaleEnd ==
  /\ hook.mounted /\ ~RenderDue(hook)
  /\ \E u \in stale, late \in (IF queue # <<>> THEN BOOLEAN ELSE {FALSE}) :
       /\ u.started
       /\ ReaderStep(hook, utteranceOnEnd([Cur(late) EXCEPT !.stale = @ \ {u}], u.index, u.cfg))

BrStaleError ==
  /\ hook.mounted /\ ~RenderDue(hook)
  /\ \E u \in stale : ReaderStep(hook, utteranceOnError([Cur(FALSE) EXCEPT !.stale = @ \ {u}]))

BrCloudEnded ==
  /\ hook.mounted /\ ~RenderDue(hook) /\ cloud.playing
  /\ \E c \in cloud.onended :
       ReaderStep(hook, onEndHandler([Cur(FALSE) EXCEPT !.cloud.playing = FALSE], c.index, c.cfg))

BrCloudError ==
  /\ hook.mounted /\ ~RenderDue(hook) /\ cloud.playing
  /\ ReaderStep(hook, cloudOnError([Cur(FALSE) EXCEPT !.cloud.playing = FALSE]))

BrNext ==
  \/ BrBookLoaded \/ BrContentLoaded \/ BrRender
  \/ BrPlayPause \/ BrArrow \/ BrScroll \/ BrJump
  \/ BrTimerFire \/ BrUtterStart \/ BrUtterEnd \/ BrUtterError
  \/ BrStaleEnd \/ BrStaleError \/ BrCloudEnded \/ BrCloudError

BrSpec == BrInit /\ [][BrNext]_vars

\* C31 (as claimed): the lines the reader holds are always the first lines of
\* the book, in order: lines[k] is the book's line k for every k < lines.length.
C31_LinesArePrefix ==
  hook.mounted =>
    \A k \in 1..Len(hook.st.lines) : hook.st.lines[k] = TextOf(ReaderBook, k - 1)

LoadMoreFetches(h) == { f \in h.inflight : f.via = "loadMoreLines" }

\* C35: at most one content request issued by loadMoreLines is in flight, it
\* is in flight exactly while isFetchingRef is set, and while it is a load
\* request from the list, from a jump or from the engine issues no request.
C35_OneFetchInFlight ==
  hook.mounted =>
    /\ Cardinality(LoadMoreFetches(hook)) <= 1
    /\ hook.isFetching <=> LoadMoreFetches(hook) # {}
    /\ LoadMoreFetches(hook) # {} =>
         \A offset \in 0..MaxLoaded, limit \in 1..BookTotal, by \in {"scroll", "jump", "engine"} :
           loadMoreLines(hook, offset, limit, by).inflight = hook.inflight

\* the engine asked for more lines while the list's own request was in
\* flight, and was refused
C35_Witness ==
  /\ hook.mounted /\ hook.asked = "refused" /\ hook.shouldResume
  /\ \E f \in hook.inflight : f.via = "loadMoreLines" /\ f.by = "scroll"
  /\ Cardinality(hook.inflight) = 1

\* C36 (as claimed): whenever the play control or the space key makes the
\* reader call start, the index passed satisfies 0 <= index < totalLines of
\* the config passed with it, and is 0 when currentLine >= totalLines.
C36_StartInRange ==
  hook.mounted /\ ~RenderDue(hook) /\ ~hook.view.isPlaying =>
    LET index == startFrom(hook.view)
        cfg   == speechConfigs(hook, hook.view)
    IN  /\ 0 <= index /\ index < cfg.totalLines
        /\ hook.view.currentLine >= hook.view.totalLines => index = 0

\* nothing is left that could still call back into the reader: no render due,
\* no content request in flight, no resume scheduled, no adapter active and
\* no cancelled utterance the platform still holds
Settled ==
  /\ ~RenderDue(hook) /\ hook.inflight = {}
  /\ timers = {} /\ queue = <<>> /\ stale = {} /\ ~cloud.playing

\* C33 (as claimed): once a press of the play/pause control while playing has
\* called pause() and everything the press set off has run, the reader's
\* isPlaying is false, so that the next press calls start.
C33_PauseShowsPaused ==
  hook.mounted /\ hook.press = "pause" /\ playbackState = "paused" /\ Settled =>
    ~hook.view.isPlaying

\* C32 (as claimed): a load request of the engine that the reader has not yet
\* answered with resume (shouldResumeRef is set) while isPlaying is true and
\* the book has the current line is never left with nothing to come: a content
\* request is in flight, a render is due or the engine has something
\* scheduled.
C32_ResumeAfterLoad ==
  hook.mounted /\ hook.shouldResume /\ hook.view.isPlaying /\ ~hook.view.loading
  /\ 0 <= hook.view.currentLine /\ hook.view.currentLine < BookTotal
    => ~Settled
====
